---------------------------- MODULE Spec2Model ----------------------------
(***************************************************************************)
(* A model of django_browserid/views.py: the JSON views Verify, CsrfToken  *)
(* and Logout, the redirect resolver _get_next and the 405 envelope        *)
(* JSONView.http_method_not_allowed.                                       *)
(*                                                                         *)
(* One action handles one request from entry (as_view / dispatch) to the   *)
(* response.  The state keeps the process-wide settings, the session the   *)
(* framework's login/logout primitives act on, and, for the request that   *)
(* was handled last: the request, the response and the ordered list of     *)
(* collaborator calls the handler made while serving it.                   *)
(*                                                                         *)
(* Python values are strings.  None is the sentinel string None; user      *)
(* objects and exception objects are named by strings and their            *)
(* attributes (email, is_active, truth value) are tables over those names. *)
(***************************************************************************)
EXTENDS Naturals, Sequences, FiniteSets

VARIABLES settings, session, request, response, calls

vars == <<settings, session, request, response, calls>>

\* Python's None.
None == "None"

-----------------------------------------------------------------------------
(* Values the inputs are drawn from *)

\* Hosts a request can be addressed to (request.get_host()).
Hosts == {"myhost", "testserver"}

\* An absolute URL on a foreign host; used both as a POSTed next value and as
\* a configured redirect URL (the settings are free-form strings).
OffHostURL == "http://other.example.com/"

\* Values of the POSTed next parameter (absence is a missing key of POST).
NextValues == {"", "/asdf", "http://myhost/home", OffHostURL,
               "//evil.com/path", "javascript:alert(1)"}

\* Values of the POSTed assertion parameter.
AssertionValues == {"", "asdf"}

\* User objects the authentication backend can return.  alice and carol are
\* active, bob is inactive; dave is an active user whose class defines
\* __len__ returning 0, so his truth value is False.
Users == {"alice", "carol", "bob", "dave"}

\* user.email
email(u) == CASE u = "alice" -> "test@example.com"
              [] u = "carol" -> "a@b.com"
              [] u = "bob"   -> "bob@example.com"
              [] u = "dave"  -> "dave@example.com"

\* user.is_active
is_active(u) == u \in {"alice", "carol", "dave"}

\* Exception instances authenticate() can raise.  EmptyErrorList is an
\* instance of an Exception subclass whose __len__ returns 0, so its truth
\* value is False; the other two have the default truth value True.
Exceptions == {"BrowserIDException", "Exception", "EmptyErrorList"}

\* Objects whose Python truth value is False.
Falsy == {None, "", "EmptyErrorList", "dave"}

\* bool(x), as used by `if x`, `not x`, `x and y`, `x or y`.
Truthy(x) == x \notin Falsy

\* Python's `a or b`.
PyOr(a, b) == IF Truthy(a) THEN a ELSE b

\* dict.get(key): the value, or None when the key is missing.
Get(dict, key) == IF key \in DOMAIN dict THEN dict[key] ELSE None

\* The names of the settings the views read, and the values they may hold.
SettingNames == {"LOGIN_REDIRECT_URL", "LOGIN_REDIRECT_URL_FAILURE",
                 "LOGOUT_REDIRECT_URL"}

SettingValues(name) ==
    CASE name = "LOGIN_REDIRECT_URL"         -> {"/success", OffHostURL}
      [] name = "LOGIN_REDIRECT_URL_FAILURE" -> {"/fail"}
      [] name = "LOGOUT_REDIRECT_URL"        -> {OffHostURL}

\* Every settings object: each setting is either missing or has a value.
AllSettings ==
    UNION { { s \in [D -> {"/success", "/fail", OffHostURL}] :
                \A k \in D : s[k] \in SettingValues(k) } :
            D \in SUBSET SettingNames }

\* getattr(settings, name, default)
getattr(cfg, name, default) == IF name \in DOMAIN cfg THEN cfg[name] ELSE default

-----------------------------------------------------------------------------
(* Collaborators *)

\* One recorded call of a collaborator: the callee, its argument, and what it
\* returned or raised (None when nothing).
Call(fn, arg, ret, exc) == [fn |-> fn, arg |-> arg, ret |-> ret, exc |-> exc]

\* urlparse(url).scheme and .netloc for the URLs of the model.
Scheme(url) == CASE url \in {"http://myhost/home", OffHostURL} -> "http"
                 [] url = "javascript:alert(1)"                -> "javascript"
                 [] OTHER                                      -> ""

Netloc(url) == CASE url = "http://myhost/home" -> "myhost"
                 [] url = OffHostURL           -> "other.example.com"
                 [] url = "//evil.com/path"    -> "evil.com"
                 [] OTHER                      -> ""

\* django.utils.http.is_safe_url(url, host): an empty or missing url is not
\* safe; otherwise the url must be relative or on `host`, with no scheme or
\* an http(s) one.
is_safe_url(url, host) ==
    IF ~Truthy(url) THEN FALSE
    ELSE IF Netloc(url) = "" /\ Scheme(url) # "" THEN FALSE
    ELSE /\ (Netloc(url) = "" \/ Netloc(url) = host)
         /\ (Scheme(url) = "" \/ Scheme(url) \in {"http", "https"})

\* What auth.authenticate can do: return a user or None, or raise.
BackendOutcomes ==
    { [ret |-> u, exc |-> None] : u \in Users \cup {None} } \cup
    { [ret |-> None, exc |-> e] : e \in Exceptions }

\* The outcome handed to a handler for a request that cannot reach
\* auth.authenticate; it has no ret and no exc to read.
NotCalled == [called |-> FALSE]

\* What sanity_checks can do: return, or reject the request by raising.
SanityOutcomes == {None, "ImproperlyConfigured"}

-----------------------------------------------------------------------------
(* Responses *)

\* The response slot before any request, and when the handler raised.
NoResponse(kind) ==
    [kind |-> kind, status |-> 0, json |-> <<>>, text |-> None,
     Allow |-> <<>>, CacheControl |-> None]

\* JSONResponse(content, status=200): the dict as the JSON body.
JSONResponse(content, status) ==
    [kind |-> "json", status |-> status, json |-> content, text |-> None,
     Allow |-> <<>>, CacheControl |-> None]

\* HttpResponse(content): a plain-text body, status 200.
HttpResponse(content) ==
    [kind |-> "text", status |-> 200, json |-> <<>>, text |-> content,
     Allow |-> <<>>, CacheControl |-> None]

\* What a handler hands back: the response, the calls it made in order, and
\* the session it leaves.
Result(resp, cs, sess) == [response |-> resp, calls |-> cs, session |-> sess]


\* JSONResponse(content) with the status left at its default, 200.
JSONResponseOK(content) == JSONResponse(content, 200)

\* The record of the JSONResponse constructor being called.
Built == Call("JSONResponse", None, None, None)

\* `r` with the calls `cs` made before it.
After(cs, r) == [r EXCEPT !.calls = cs \o @]

-----------------------------------------------------------------------------
(* JSONView *)

\* View.http_method_names, in order.
http_method_names ==
    <<"get", "post", "put", "patch", "delete", "head", "options", "trace">>

\* The set of those names.
MethodNames == { http_method_names[i] : i \in DOMAIN http_method_names }

\* str.upper() on a method name.
upper(m) == CASE m = "get"     -> "GET"
              [] m = "post"    -> "POST"
              [] m = "put"     -> "PUT"
              [] m = "patch"   -> "PATCH"
              [] m = "delete"  -> "DELETE"
              [] m = "head"    -> "HEAD"
              [] m = "options" -> "OPTIONS"
              [] m = "trace"   -> "TRACE"

\* request.method.lower(); PROPFIND stands for a method View does not know.
lower(m) == CASE m = "GET"      -> "get"
              [] m = "POST"     -> "post"
              [] m = "PUT"      -> "put"
              [] m = "PATCH"    -> "patch"
              [] m = "DELETE"   -> "delete"
              [] m = "HEAD"     -> "head"
              [] m = "OPTIONS"  -> "options"
              [] m = "TRACE"    -> "trace"
              [] m = "PROPFIND" -> "propfind"

\* The HTTP methods a request can carry.
RequestMethods == {"GET", "POST", "PUT", "PATCH", "DELETE", "HEAD", "OPTIONS",
                   "TRACE", "PROPFIND"}

\* hasattr(self, m): `attrs` are the handler attributes of the view instance.
hasattr(attrs, m) == m \in attrs

\* Mutant: the hasattr filter is lost, every known method name is listed.
allowed_methods_Unfiltered(attrs) ==
    [i \in DOMAIN http_method_names |-> upper(http_method_names[i])]

\* [m.upper() for m in self.http_method_names if hasattr(self, m)]
allowed_methods(attrs) ==
    LET Has(m) == hasattr(attrs, m)
        kept   == SelectSeq(http_method_names, Has)
    IN  [i \in DOMAIN kept |-> upper(kept[i])]

\* JSONView.http_method_not_allowed: 405, {error}, and the Allow header.  The
\* header's ', '.join(...) is kept as the list of the joined names.
http_method_not_allowed(attrs) ==
    [JSONResponse([error |-> "Method not allowed."], 405)
        EXCEPT !.Allow = allowed_methods(attrs)]

-----------------------------------------------------------------------------
(* _get_next *)

\* Mutant: next is returned without asking is_safe_url.
get_next_Unchecked(req) == Get(req.POST, "next")

\* _get_next(request): the POSTed next if is_safe_url accepts it for the
\* request's host, else None.
get_next(req) ==
    LET next == Get(req.POST, "next")
    IN  IF is_safe_url(next, req.host) THEN next ELSE None

-----------------------------------------------------------------------------
(* Verify *)

\* Mutant: the failure URL is read from the success setting.
failure_url_FromSuccess(cfg) == getattr(cfg, "LOGIN_REDIRECT_URL", "/")

\* Verify.failure_url
failure_url(cfg) == getattr(cfg, "LOGIN_REDIRECT_URL_FAILURE", "/")

\* Verify.success_url
success_url(cfg) == getattr(cfg, "LOGIN_REDIRECT_URL", "/")

\* Verify.login_success: auth.login, then 200 {email, redirect}.
login_success(req, cfg, user) ==
    Result(JSONResponseOK([email    |-> email(user),
                           redirect |-> PyOr(get_next(req), success_url(cfg))]),
           <<Call("auth.login", user, None, None), Built>>,
           user)

\* Mutant: the failure response is built without status=403.
login_failure_DefaultStatus(cfg, sess, error) ==
    Result(JSONResponseOK([redirect |-> failure_url(cfg)]),
           (IF Truthy(error) THEN <<Call("logger.error", error, None, None)>>
                             ELSE <<>>) \o <<Built>>,
           sess)

\* Verify.login_failure(error): log a true error, then 403 {redirect}.
login_failure(cfg, sess, error) ==
    Result(JSONResponse([redirect |-> failure_url(cfg)], 403),
           (IF Truthy(error) THEN <<Call("logger.error", error, None, None)>>
                             ELSE <<>>) \o <<Built>>,
           sess)

\* Mutant: only a missing assertion is refused (`is None` for `not`), so an
\* empty one is sent to the backend.
Verify_post_EmptySent(req, cfg, sess, out) ==
    LET assertion == Get(req.POST, "assertion")
        authenticate == Call("auth.authenticate", assertion, out.ret, out.exc)
        user == out.ret
    IN  IF assertion = None THEN login_failure(cfg, sess, None)
        ELSE IF out.exc # None
             THEN After(<<authenticate>>, login_failure(cfg, sess, out.exc))
        ELSE IF Truthy(user) /\ is_active(user)
             THEN After(<<authenticate>>, login_success(req, cfg, user))
        ELSE After(<<authenticate>>, login_failure(cfg, sess, None))

\* Mutant: the is_active test is lost, any returned user is logged in.
Verify_post_NoActiveTest(req, cfg, sess, out) ==
    LET assertion == Get(req.POST, "assertion")
        authenticate == Call("auth.authenticate", assertion, out.ret, out.exc)
        user == out.ret
    IN  IF ~Truthy(assertion) THEN login_failure(cfg, sess, None)
        ELSE IF out.exc # None
             THEN After(<<authenticate>>, login_failure(cfg, sess, out.exc))
        ELSE IF Truthy(user)
             THEN After(<<authenticate>>, login_success(req, cfg, user))
        ELSE After(<<authenticate>>, login_failure(cfg, sess, None))

\* Verify.post; `out` is what auth.authenticate does if it is called.
Verify_post(req, cfg, sess, out) ==
    LET assertion == Get(req.POST, "assertion")
        authenticate == Call("auth.authenticate", assertion, out.ret, out.exc)
        user == out.ret
    IN  IF ~Truthy(assertion) THEN login_failure(cfg, sess, None)
        ELSE IF out.exc # None
             THEN After(<<authenticate>>, login_failure(cfg, sess, out.exc))
        ELSE IF Truthy(user) /\ is_active(user)
             THEN After(<<authenticate>>, login_success(req, cfg, user))
        ELSE After(<<authenticate>>, login_failure(cfg, sess, None))

-----------------------------------------------------------------------------
(* CsrfToken and Logout *)

\* CSRF tokens the template context can hold (possibly lazily).
Tokens == {"", "asdf"}

\* CsrfToken.get under never_cache: the forced token as text, max-age=0.
CsrfToken_get(sess, token) ==
    Result([HttpResponse(token) EXCEPT !.CacheControl = "max-age=0"],
           <<Call("RequestContext", None, token, None)>>,
           sess)

\* Logout.redirect_url
redirect_url(cfg) == getattr(cfg, "LOGOUT_REDIRECT_URL", "/")

\* Mutant: the session is ended only when there is no next to go to.
Logout_post_KeepOnNext(req, cfg) ==
    IF get_next(req) # None
    THEN Result(JSONResponseOK([redirect |-> get_next(req)]), <<Built>>,
                session)
    ELSE Result(JSONResponseOK([redirect |-> redirect_url(cfg)]),
                <<Call("auth.logout", None, None, None), Built>>, None)

\* Logout.post: auth.logout, then 200 {redirect}.
Logout_post(req, cfg) ==
    Result(JSONResponseOK([redirect |-> PyOr(get_next(req), redirect_url(cfg))]),
           <<Call("auth.logout", None, None, None), Built>>,
           None)

-----------------------------------------------------------------------------
(* View.as_view and View.dispatch *)

\* The handler methods each view class of views.py defines.
ClassAttrs(view) == CASE view = "Verify"    -> {"post"}
                      [] view = "Logout"    -> {"post"}
                      [] view = "CsrfToken" -> {"get"}

\* The handler attributes of an instance of a class defining `defined`:
\* View itself provides options.
InstanceAttrs(defined) == defined \cup {"options"}

\* ... and as_view() aliases head to get when only get is defined.
AsViewAttrs(defined) ==
    InstanceAttrs(defined) \cup
        (IF "get" \in defined /\ "head" \notin defined THEN {"head"} ELSE {})

\* View.options: an empty 200 response with the Allow header.
View_options(attrs, sess) ==
    Result([HttpResponse("") EXCEPT !.Allow = allowed_methods(attrs)],
           <<>>, sess)

\* View.dispatch: the handler named by the lowercased method when it is a
\* known method name and the instance has it, else http_method_not_allowed.
dispatch(req, cfg, sess, out, token) ==
    LET m == lower(req.method)
    IN  IF ~(m \in MethodNames /\ hasattr(req.attrs, m))
        THEN Result(http_method_not_allowed(req.attrs), <<Built>>, sess)
        ELSE CASE m = "options" -> View_options(req.attrs, sess)
               [] m = "post" /\ req.view = "Verify" ->
                      Verify_post(req, cfg, sess, out)
               [] m = "post" /\ req.view = "Logout" -> Logout_post(req, cfg)
               [] m \in {"get", "head"} /\ req.view = "CsrfToken" ->
                      CsrfToken_get(sess, token)

\* Mutant: the sanity checks run for POST requests only.
Verify_dispatch_PostOnly(req, cfg, sess, sanity, out) ==
    LET checked == Call("sanity_checks", None, None, sanity)
    IN  IF req.method # "POST" THEN dispatch(req, cfg, sess, out, None)
        ELSE IF sanity # None
        THEN Result(NoResponse("raised"), <<checked>>, sess)
        ELSE After(<<checked>>, dispatch(req, cfg, sess, out, None))

\* Verify.dispatch: sanity_checks(request) first; if it raises, the exception
\* leaves the view and nothing else runs.
Verify_dispatch(req, cfg, sess, sanity, out) ==
    LET checked == Call("sanity_checks", None, None, sanity)
    IN  IF sanity # None
        THEN Result(NoResponse("raised"), <<checked>>, sess)
        ELSE After(<<checked>>, dispatch(req, cfg, sess, out, None))

-----------------------------------------------------------------------------
(* The state machine *)

\* request.POST of a POST request with the form fields `fields`.
PostDicts(fields) ==
    UNION { { p \in [D -> AssertionValues \cup NextValues] :
                /\ ("assertion" \in D => p["assertion"] \in AssertionValues)
                /\ ("next" \in D => p["next"] \in NextValues) } :
            D \in SUBSET fields }

\* The requests a client can send to `view`; only a POST carries form data.
Requests(view, fields) ==
    { [view |-> view, attrs |-> AsViewAttrs(ClassAttrs(view)), method |-> m,
       POST |-> p, host |-> h] :
        m \in RequestMethods, h \in Hosts, p \in PostDicts(fields) }

RequestsTo(view, fields) ==
    { r \in Requests(view, fields) : r.method # "POST" => r.POST = <<>> }

\* The request slot before any request.
NoRequest ==
    [view |-> None, attrs |-> {}, method |-> None, POST |-> <<>>, host |-> None]

\* The methods the view classes of the tests define handlers for.
TestViewMethods == {"get", "post", "put", "delete", "head"}

Init ==
    /\ settings \in AllSettings
    /\ session \in {None} \cup {u \in Users : Truthy(u) /\ is_active(u)}
    /\ request = NoRequest
    /\ response = NoResponse("none")
    /\ calls = <<>>

\* The state after the handler returned `r` for `req`.
Handled(req, r) ==
    /\ request' = req
    /\ response' = r.response
    /\ calls' = r.calls
    /\ session' = r.session
    /\ UNCHANGED settings

\* The backend's behaviour is drawn only for the requests that can reach it.
ReachesBackend(req, sanity) ==
    /\ sanity = None
    /\ req.method = "POST"
    /\ Get(req.POST, "assertion") # None

\* A request to Verify.as_view().
VerifyRequest ==
    \E req \in RequestsTo("Verify", {"assertion", "next"}),
       sanity \in SanityOutcomes :
        \E out \in IF ReachesBackend(req, sanity) THEN BackendOutcomes
                                                  ELSE {NotCalled} :
            Handled(req, Verify_dispatch(req, settings, session, sanity, out))

\* A request to Logout.as_view().
LogoutRequest ==
    \E req \in RequestsTo("Logout", {"next"}) :
        Handled(req, dispatch(req, settings, session, NotCalled, None))

\* A request to CsrfToken.as_view().
CsrfTokenRequest ==
    \E req \in RequestsTo("CsrfToken", {}), token \in Tokens :
        Handled(req, dispatch(req, settings, session, NotCalled,
                               token))

\* http_method_not_allowed() called on an instance of a JSONView subclass
\* that defines the handlers `defined`, as the tests do.
MethodNotAllowedCall ==
    \E defined \in SUBSET TestViewMethods :
        LET req == [NoRequest EXCEPT !.view = "JSONView",
                                     !.attrs = InstanceAttrs(defined)]
        IN  Handled(req, Result(http_method_not_allowed(req.attrs), <<Built>>,
                                session))

Next ==
    \/ VerifyRequest
    \/ LogoutRequest
    \/ CsrfTokenRequest
    \/ MethodNotAllowedCall

Spec == Init /\ [][Next]_vars

-----------------------------------------------------------------------------
(* Vocabulary of the properties *)

\* The positions in the handled request's call list where `fn` was called.
CallsTo(fn) == { i \in DOMAIN calls : calls[i].fn = fn }

\* The handled request went to `view` with HTTP method `method`.
Is(view, method) == request.view = view /\ request.method = method

\* The sanity checks ran first and let the request through.
SanityPassed ==
    /\ calls # <<>>
    /\ calls[1].fn = "sanity_checks"
    /\ calls[1].exc = None

\* The POSTed assertion is present and not the empty string.
HasAssertion == Get(request.POST, "assertion") \notin {None, ""}

\* The POSTed next is present and the validator accepts it for the host.
NextAccepted ==
    /\ "next" \in DOMAIN request.POST
    /\ is_safe_url(request.POST["next"], request.host)

\* The value of a setting, '/' when the settings do not have it.
Configured(name) == IF name \in DOMAIN settings THEN settings[name] ELSE "/"

\* The redirect a handler with default URL `default` resolves.
Resolved(default) == IF NextAccepted THEN request.POST["next"] ELSE default

\* The backend was called at position i and returned an active principal.
ReturnedActive(i) ==
    /\ calls[i].fn = "auth.authenticate"
    /\ calls[i].exc = None
    /\ calls[i].ret \in Users
    /\ is_active(calls[i].ret)

\* The response is JSON with exactly the keys `keys`.
JSONKeys(keys) == response.kind = "json" /\ DOMAIN response.json = keys

-----------------------------------------------------------------------------
(* Properties *)

\* C1 as stated: a POST to Verify that passes the sanity checks, carries a non-empty
\* assertion and for which the backend returns an active principal logs in
\* exactly that principal and answers 200 with exactly the keys email (the
\* principal's) and redirect (the resolved target).
C1_AsStated ==
    (Is("Verify", "POST") /\ SanityPassed /\ HasAssertion)
    => \A i \in DOMAIN calls :
         ReturnedActive(i)
         => /\ \E j \in CallsTo("auth.login") : calls[j].arg = calls[i].ret
            /\ Cardinality(CallsTo("auth.login")) = 1
            /\ session = calls[i].ret
            /\ response.status = 200
            /\ JSONKeys({"email", "redirect"})
            /\ response.json.email = email(calls[i].ret)
            /\ response.json.redirect = Resolved(Configured("LOGIN_REDIRECT_URL"))

\* C2: on a POST to Verify, a missing assertion, a verification error, any
\* other backend error and a null or inactive principal all give 403 with the
\* single key redirect, the configured failure URL ('/' by default), whatever
\* next is.
C2_FailureKinds ==
    LET missing  == ~HasAssertion
        verifErr == \E i \in CallsTo("auth.authenticate") :
                        calls[i].exc = "BrowserIDException"
        otherErr == \E i \in CallsTo("auth.authenticate") :
                        calls[i].exc \in Exceptions \ {"BrowserIDException"}
        noUser   == \E i \in CallsTo("auth.authenticate") :
                        /\ calls[i].exc = None
                        /\ (calls[i].ret = None \/ ~is_active(calls[i].ret))
    IN  (Is("Verify", "POST") /\ SanityPassed
            /\ (missing \/ verifErr \/ otherErr \/ noUser))
        => /\ response.status = 403
           /\ JSONKeys({"redirect"})
           /\ response.json.redirect = Configured("LOGIN_REDIRECT_URL_FAILURE")

C2_Witness ==
    /\ Is("Verify", "POST") /\ SanityPassed
    /\ \E i \in CallsTo("auth.authenticate") : calls[i].exc = "Exception"
    /\ NextAccepted
    /\ "LOGIN_REDIRECT_URL_FAILURE" \notin DOMAIN settings
    /\ response.status = 403
    /\ response.json.redirect = "/"

\* The handled request is one whose response carries a resolved redirect: a
\* successful Verify, or a POST to Logout.
ResolvesRedirect ==
    \/ Is("Verify", "POST") /\ response.status = 200
    \/ Is("Logout", "POST")

\* The default URL of the handler that served the request.
DefaultURL == IF request.view = "Verify" THEN Configured("LOGIN_REDIRECT_URL")
                                         ELSE Configured("LOGOUT_REDIRECT_URL")

\* C3 as stated: the redirect equals the POSTed next if and only if next is
\* present and accepted, and is the default otherwise; a rejected next never
\* appears in a response.
C3_AsStated ==
    ResolvesRedirect
    => /\ (response.json.redirect = Get(request.POST, "next")) <=> NextAccepted
       /\ ~NextAccepted => response.json.redirect = DefaultURL

\* C3, amended: the redirect equals the POSTed next whenever next is present
\* and accepted for the request's host, and equals the handler's configured
\* default URL in every other case (next absent, empty or rejected); a
\* rejected next reaches the response only by being that default itself.
C3_ResolvedRedirect ==
    ResolvesRedirect
    => /\ JSONKeys({"redirect"}) \/ JSONKeys({"email", "redirect"})
       /\ NextAccepted => response.json.redirect = request.POST["next"]
       /\ ~NextAccepted => response.json.redirect = DefaultURL
       /\ (response.json.redirect = Get(request.POST, "next") /\ ~NextAccepted)
            => Get(request.POST, "next") = DefaultURL

C3_Witness ==
    /\ Is("Verify", "POST") /\ response.status = 200
    /\ Get(request.POST, "next") = "//evil.com/path"
    /\ settings = [LOGIN_REDIRECT_URL |-> "/success"]
    /\ response.json.redirect = "/success"

\* C4 as stated: every response of every handler is a success payload (email
\* and redirect) or a failure payload (redirect only, status not 200).
C4_AsStated ==
    response.kind \in {"json", "text"}
    => \/ JSONKeys({"email", "redirect"})
       \/ JSONKeys({"redirect"}) /\ response.status # 200

\* C4, amended: every response of Verify's POST handler is a success payload
\* (email and redirect, 200) or a failure payload (redirect only, 403), never
\* a mix; Logout's POST answers 200 with redirect only, the 405 path answers
\* with error only, and the remaining responses (CsrfToken, OPTIONS) are not
\* JSON.
C4_Payloads ==
    /\ response.kind \in {"none", "raised", "json", "text"}
    /\ response.kind = "json"
       => \/ /\ Is("Verify", "POST")
             /\ JSONKeys({"email", "redirect"}) /\ response.status = 200
          \/ /\ Is("Verify", "POST")
             /\ JSONKeys({"redirect"}) /\ response.status = 403
          \/ /\ Is("Logout", "POST")
             /\ JSONKeys({"redirect"}) /\ response.status = 200
          \/ /\ ~Is("Verify", "POST") /\ ~Is("Logout", "POST")
             /\ JSONKeys({"error"}) /\ response.status = 405
    /\ response.kind = "text"
       => /\ response.status = 200
          /\ response.json = <<>>
          /\ \/ request.view = "CsrfToken" /\ request.method \in {"GET", "HEAD"}
             \/ request.method = "OPTIONS"
    /\ (Is("Verify", "POST") /\ SanityPassed) => response.kind = "json"
    /\ Is("Logout", "POST") => response.kind = "json"

C4_Witness ==
    /\ Is("Verify", "POST")
    /\ JSONKeys({"redirect"}) /\ response.status = 403
    /\ CallsTo("auth.authenticate") # {}

\* C5: a POST to Logout calls the logout primitive before the response is
\* built, whatever next is, leaves no user in the session, and answers 200
\* with the single key redirect.
C5_Logout ==
    Is("Logout", "POST")
    => /\ CallsTo("auth.logout") # {}
       /\ CallsTo("JSONResponse") # {}
       /\ \A i \in CallsTo("JSONResponse") :
            \E j \in CallsTo("auth.logout") : j < i
       /\ session = None
       /\ response.status = 200
       /\ JSONKeys({"redirect"})

C5_Witness ==
    /\ Is("Logout", "POST")
    /\ Get(request.POST, "next") = "javascript:alert(1)"
    /\ session = None
    /\ response.status = 200

\* The handled request reached View.dispatch with a method the view instance
\* has no handler for.
Unsupported ==
    /\ request.view \in {"Verify", "Logout", "CsrfToken"}
    /\ request.view = "Verify" => SanityPassed
    /\ lower(request.method) \notin request.attrs \cap MethodNames

\* C6: an unsupported method is answered 405, and every 405 has the body
\* {error: "Method not allowed."} and an Allow header naming, in upper case,
\* exactly the methods the view instance implements.
C6_MethodNotAllowed ==
    /\ Unsupported => response.status = 405
    /\ response.status = 405
       => /\ response.kind = "json"
          /\ response.json = [error |-> "Method not allowed."]
          /\ { response.Allow[i] : i \in DOMAIN response.Allow }
                = { upper(m) : m \in request.attrs \cap MethodNames }

C6_Witness ==
    /\ Is("Verify", "GET")
    /\ response.status = 405
    /\ response.Allow = <<"POST", "OPTIONS">>

\* C7: every request to Verify, whatever its method, starts with the sanity
\* checks; when they reject it nothing else is called (no backend, no login)
\* and no handler response is produced.
C7_SanityFirst ==
    request.view = "Verify"
    => /\ calls # <<>>
       /\ CallsTo("sanity_checks") = {1}
       /\ calls[1].exc # None
          => /\ Len(calls) = 1
             /\ response.kind = "raised"
             /\ response.status \notin {200, 403, 405}

C7_Witness ==
    /\ Is("Verify", "GET")
    /\ calls[1].fn = "sanity_checks" /\ calls[1].exc # None
    /\ response.kind = "raised"

\* C8: Verify calls the backend at most once per request, and only for a
\* POST with a non-empty assertion; without one it answers with the failure
\* response directly.
C8_BackendOnce ==
    request.view = "Verify"
    => /\ Cardinality(CallsTo("auth.authenticate")) <= 1
       /\ CallsTo("auth.authenticate") # {}
          => /\ request.method = "POST" /\ HasAssertion
             /\ \A i \in CallsTo("auth.authenticate") :
                    calls[i].arg = request.POST["assertion"]
       /\ (Is("Verify", "POST") /\ SanityPassed /\ ~HasAssertion)
          => /\ CallsTo("auth.authenticate") = {}
             /\ response.status = 403

C8_Witness ==
    /\ Is("Verify", "POST") /\ SanityPassed
    /\ Get(request.POST, "assertion") = ""
    /\ CallsTo("auth.authenticate") = {}
    /\ response.status = 403

\* C9 as stated: Verify writes an error log entry exactly when the backend
\* raised an error, and the logged object is the raised error.
C9_AsStated ==
    request.view = "Verify"
    => /\ CallsTo("logger.error") # {}
          <=> \E i \in CallsTo("auth.authenticate") : calls[i].exc # None
       /\ \A k \in CallsTo("logger.error") :
            \E i \in CallsTo("auth.authenticate") :
                i < k /\ calls[i].exc = calls[k].arg

\* C10: the login primitive is called only after the backend returned, in
\* the same request, the active principal it is called with; it is never
\* called on a request answered 403 or 405; and a non-POST request to Verify
\* or Logout calls none of authenticate, login and logout.
C10_LoginOnlyAfterAuth ==
    /\ \A k \in CallsTo("auth.login") :
         \E i \in 1..(k - 1) : ReturnedActive(i) /\ calls[i].ret = calls[k].arg
    /\ CallsTo("auth.login") # {} => Is("Verify", "POST")
    /\ response.status \in {403, 405} => CallsTo("auth.login") = {}
    /\ (request.view \in {"Verify", "Logout"} /\ request.method # "POST")
       => /\ CallsTo("auth.authenticate") = {}
          /\ CallsTo("auth.login") = {}
          /\ CallsTo("auth.logout") = {}

C10_Witness ==
    /\ Is("Verify", "POST")
    /\ \E i \in CallsTo("auth.authenticate") : calls[i].ret = "bob"
    /\ CallsTo("auth.login") = {}
    /\ response.status = 403

=============================================================================
